---- MODULE Spec2Model ----
(***************************************************************************)
(* Session controller of whatsapp-api: the eight request handlers of      *)
(* src/src/controllers/sessionController.js and the four handlers of the  *)
(* logging variant src/unnamed/part_000, run against an Express response  *)
(* object, the session registry and the collaborators they call.          *)
(*                                                                         *)
(* One action is one run of handler code between two suspension points    *)
(* (JavaScript runs to completion between awaits).  The collaborators,    *)
(* the polling timer, the QR byte stream and code outside the handler     *)
(* that writes the same response are the environment.                     *)
(***************************************************************************)
EXTENDS Integers, Sequences, FiniteSets, TLC

VARIABLES pc, frame, calls, res, stream, sessions, pupPage

vars == <<pc, frame, calls, res, stream, sessions, pupPage>>

(* ------------------------------------------------------------------ *)
(* Bounds and domains                                                  *)
(* ------------------------------------------------------------------ *)

\* Probes of the readiness wait that may fail before it times out.
MaxPolls == 2

Reqs == {1, 2}

SessionIds == {"s1", "s2"}

\* QR payloads a session can expose during its authentication window.
QrPayloads == {"XYZ", "ABC"}

Collaborators ==
  {"setupSession", "validateSession", "reloadSession", "deleteSession",
   "flushSessions", "waitForNestedObject", "sessions.get", "qr.image", "pipe"}

Undefined == [undefined |-> TRUE]

NoBody == [empty |-> TRUE]

NoSession == [present |-> FALSE, qr |-> ""]

\* Messages of the collaborators' results and exceptions.
SetupOkMessage == "Session initiated successfully"
SetupRejectedMessage == "Session already exists"
TimeoutMessage(path) == "Timed out waiting for " \o path
NoClientMessage == "setupSession did not return a client object."
HeadersSentMessage == "Cannot set headers after they are sent to the client"
ErrorOf(c) == c \o " failed"

NotFoundPayload == [success |-> FALSE, message |-> "session_not_found"]
ConnectedPayload == [success |-> TRUE, message |-> "session_connected"]
NotConnectedPayload == [success |-> FALSE, message |-> "session_not_connected"]

(* ------------------------------------------------------------------ *)
(* The response object (Express res over http.ServerResponse)          *)
(* ------------------------------------------------------------------ *)

NewResponse ==
  [headersSent |-> FALSE, writableEnded |-> FALSE, statusCode |-> 200,
   writes |-> << >>, closed |-> FALSE]

Write(by, op, status, type, body, late) ==
  [by |-> by, op |-> op, status |-> status, type |-> type, body |-> body,
   late |-> late]

\* res.status(code)
resStatus(rs, code) == [rs EXCEPT !.statusCode = code]

\* res.json(body): status line, headers, body and end in one call.  On a
\* response whose headers are sent the call reaches the response and is
\* refused (it throws HeadersSentMessage); nothing more is transmitted.
resJson(rs, body) ==
  IF rs.headersSent
  THEN [rs EXCEPT !.writes =
          Append(@, Write("handler", "json", rs.statusCode,
                          "application/json", body, TRUE))]
  ELSE [rs EXCEPT !.headersSent = TRUE, !.writableEnded = TRUE,
                  !.writes =
          Append(@, Write("handler", "json", rs.statusCode,
                          "application/json", body, FALSE))]

\* res.writeHead(status, {'Content-Type': type}): sends the headers.
resWriteHead(rs, status, type) ==
  IF rs.headersSent
  THEN [rs EXCEPT !.writes =
          Append(@, Write("handler", "writeHead", status, type, NoBody, TRUE))]
  ELSE [rs EXCEPT !.headersSent = TRUE, !.statusCode = status,
                  !.writes =
          Append(@, Write("handler", "writeHead", status, type, NoBody, FALSE))]

\* res.end()
resEnd(rs, by) ==
  [rs EXCEPT !.headersSent = TRUE, !.writableEnded = TRUE,
             !.writes = Append(@, Write(by, "end", rs.statusCode, "", NoBody,
                                        rs.writableEnded))]

\* sendErrorResponse(res, status, message) of utils
sendErrorResponse(rs, status, message) ==
  resJson(resStatus(rs, status), [success |-> FALSE, message |-> message])

(* ------------------------------------------------------------------ *)
(* Handler frames and exceptions                                       *)
(* ------------------------------------------------------------------ *)

NewFrame ==
  [handler |-> "", sessionId |-> "", setupSessionReturn |-> Undefined,
   validation |-> Undefined, session |-> Undefined,
   thisHandlerResponded |-> FALSE, error |-> "", args |-> Undefined,
   polls |-> 0, log |-> {}, skipped |-> {}]

NoCalls == [c \in Collaborators |-> "none"]

Enter(h, s) == [NewFrame EXCEPT !.handler = h, !.sessionId = s]

\* console.log / console.warn / console.error at the named place
Log(fr, tag) == [fr EXCEPT !.log = @ \cup {tag}]

\* a terminal write left out because res.headersSent was true
Skip(fr, site) == [fr EXCEPT !.skipped = @ \cup {site}]

\* the exception bound by a catch clause
Caught(fr, message) == [fr EXCEPT !.error = message]

\* The outcome of a block of handler code: the response, the frame, and the
\* message of the exception leaving the block ("" when it completes).
Ok(rs, fr) == [rs |-> rs, fr |-> fr, thrown |-> ""]

Throw(rs, fr, message) == [rs |-> rs, fr |-> fr, thrown |-> message]

\* res.json(body) as a statement: it throws on a response already started.
SendJson(rs, fr, body) ==
  IF rs.headersSent
  THEN Throw(resJson(rs, body), fr, HeadersSentMessage)
  ELSE Ok(resJson(rs, body), fr)

\* sendErrorResponse(res, status, message) as a statement.
SendError(rs, fr, status, message) ==
  IF rs.headersSent
  THEN Throw(sendErrorResponse(rs, status, message), fr, HeadersSentMessage)
  ELSE Ok(sendErrorResponse(rs, status, message), fr)

\* Mutant: the handlers write one response object shared by the requests.
Settle_shared(r, c) ==
  /\ pc' = [pc EXCEPT ![r] = IF c.thrown = "" THEN "done" ELSE "rejected"]
  /\ res' = [q \in Reqs |-> c.rs]
  /\ frame' = [frame EXCEPT ![r] = c.fr]

\* The handler's promise settles: fulfilled, or rejected by an exception
\* that left the handler.
Settle(r, c) ==
  /\ pc' = [pc EXCEPT ![r] = IF c.thrown = "" THEN "done" ELSE "rejected"]
  /\ res' = [res EXCEPT ![r] = c.rs]
  /\ frame' = [frame EXCEPT ![r] = c.fr]

\* The handler suspends at an await.
Suspend(r, p, fr) ==
  /\ pc' = [pc EXCEPT ![r] = p]
  /\ frame' = [frame EXCEPT ![r] = fr]
  /\ UNCHANGED res

Called(r, c, st) == calls' = [calls EXCEPT ![r][c] = st]

Settled(r, c) == calls[r][c] \in {"returned", "threw"}

InitFor(live) ==
  /\ pc = [r \in Reqs |-> IF r \in live THEN "idle" ELSE "unused"]
  /\ frame = [r \in Reqs |-> NewFrame]
  /\ calls = [r \in Reqs |-> NoCalls]
  /\ res = [r \in Reqs |-> NewResponse]
  /\ stream = [r \in Reqs |-> "none"]
  /\ sessions \in [SessionIds -> {NoSession, [present |-> TRUE, qr |-> ""]}]
  /\ pupPage = [s \in SessionIds |-> FALSE]

Init == InitFor({1})

(* ------------------------------------------------------------------ *)
(* Environment: registry, client, timer, code outside the handler     *)
(* ------------------------------------------------------------------ *)

AwaitStates ==
  {"awaitReady", "awaitValidate", "awaitReload", "awaitDelete", "awaitFlush"}

\* The session enters its authentication window: a QR payload is set.
QrIssued(s) ==
  /\ sessions[s].present /\ sessions[s].qr = ""
  /\ \E q \in QrPayloads : sessions' = [sessions EXCEPT ![s].qr = q]
  /\ UNCHANGED <<pc, frame, calls, res, stream, pupPage>>

\* Authentication completes: the QR payload is cleared.
QrScanned(s) ==
  /\ sessions[s].present /\ sessions[s].qr # ""
  /\ sessions' = [sessions EXCEPT ![s].qr = ""]
  /\ UNCHANGED <<pc, frame, calls, res, stream, pupPage>>

\* The client's browser page materialises: client.pupPage becomes set.
PageCreated(s) ==
  /\ sessions[s].present /\ ~pupPage[s]
  /\ pupPage' = [pupPage EXCEPT ![s] = TRUE]
  /\ UNCHANGED <<pc, frame, calls, res, stream, sessions>>

\* Code outside the handler (a middleware, a timeout layer) starts the
\* response while the handler has not been entered or is suspended.
OutsideWrite(r) ==
  /\ pc[r] \in {"idle"} \cup AwaitStates
  /\ ~res[r].headersSent
  /\ \E ended \in BOOLEAN :
       res' = [res EXCEPT ![r] =
                 [@ EXCEPT !.headersSent = TRUE, !.writableEnded = ended,
                           !.statusCode = 503,
                           !.writes = Append(@,
                              Write("outside", IF ended THEN "json" ELSE "writeHead",
                                    503, "application/json",
                                    IF ended THEN [success |-> FALSE, message |-> "outside"]
                                    ELSE NoBody, FALSE))]]
  /\ UNCHANGED <<pc, frame, calls, stream, sessions, pupPage>>

\* The client disconnects while the handler is suspended: the request is
\* cancelled and the connection of the response is closed.
RequestClosed(r) ==
  /\ pc[r] \in AwaitStates
  /\ ~res[r].closed /\ ~res[r].writableEnded
  /\ res' = [res EXCEPT ![r].closed = TRUE]
  /\ UNCHANGED <<pc, frame, calls, stream, sessions, pupPage>>

\* The outside writer finishes the response it started.
OutsideEnd(r) ==
  /\ res[r].headersSent /\ ~res[r].writableEnded
  /\ res[r].writes[1].by = "outside"
  /\ res' = [res EXCEPT ![r] = resEnd(@, "outside")]
  /\ UNCHANGED <<pc, frame, calls, stream, sessions, pupPage>>

(* ------------------------------------------------------------------ *)
(* Collaborators                                                       *)
(* ------------------------------------------------------------------ *)

\* What setupSession does: it throws, it returns a result synchronously
\* (rejected, ok, ok without a client), or it is asynchronous and returns
\* a promise of its result.
SetupOutcomes == {"throws", "rejected", "ok", "noclient", "promise"}

\* What reading a property of a Promise object gives.
UndefinedProperty == "undefined"

\* setupSession(sessionId): the value the call returns.  The handlers read
\* success, message and client of that value; of a promise these are
\* undefined (falsy), whatever it settles with.
setupSession(s, out) ==
  CASE out = "rejected" ->
         [success |-> FALSE, message |-> SetupRejectedMessage, client |-> ""]
    [] out = "ok" ->
         [success |-> TRUE, message |-> SetupOkMessage, client |-> s]
    [] out = "noclient" ->
         [success |-> TRUE, message |-> SetupOkMessage, client |-> ""]
    [] out = "promise" ->
         [success |-> FALSE, message |-> UndefinedProperty, client |-> "",
          settles |-> [success |-> TRUE, message |-> SetupOkMessage,
                       client |-> s]]

\* A successful setup registers the session with a fresh client.
setupSessionRegistry(s, out) ==
  IF out \in {"ok", "noclient", "promise"}
  THEN [sessions EXCEPT ![s] = [present |-> TRUE, qr |-> ""]]
  ELSE sessions

setupSessionClient(s, out) ==
  IF out \in {"ok", "noclient", "promise"} THEN [pupPage EXCEPT ![s] = FALSE] ELSE pupPage

\* Mutant: the path is resolved once, at the first probe, and the later
\* probes look at what that resolution found.
checkObject_stale(r) ==
  /\ calls[r]["waitForNestedObject"] = "pending"
  /\ LET root == frame[r].setupSessionReturn.client
         found == root # "" /\ pupPage[root] /\ frame[r].polls = 0
     IN IF found
        THEN /\ Called(r, "waitForNestedObject", "returned")
             /\ UNCHANGED frame
        ELSE IF frame[r].polls >= MaxPolls
        THEN /\ Called(r, "waitForNestedObject", "threw")
             /\ frame' = [frame EXCEPT ![r].error = TimeoutMessage("pupPage")]
        ELSE /\ frame' = [frame EXCEPT ![r].polls = @ + 1]
             /\ UNCHANGED calls
  /\ UNCHANGED <<pc, res, stream, sessions, pupPage>>

\* Mutant: the polling timer is not cancelled by the timeout, so a later
\* probe can still find the target.
checkObject_timerLeak(r) ==
  /\ calls[r]["waitForNestedObject"] \in {"pending", "threw"}
  /\ LET root == frame[r].setupSessionReturn.client
         found == root # "" /\ pupPage[root]
     IN IF found
        THEN /\ Called(r, "waitForNestedObject", "returned")
             /\ UNCHANGED frame
        ELSE IF frame[r].polls >= MaxPolls
        THEN /\ Called(r, "waitForNestedObject", "threw")
             /\ frame' = [frame EXCEPT ![r].error = TimeoutMessage("pupPage")]
        ELSE /\ frame' = [frame EXCEPT ![r].polls = @ + 1]
             /\ UNCHANGED calls
  /\ UNCHANGED <<pc, res, stream, sessions, pupPage>>

\* One probe of waitForNestedObject(root, 'pupPage'): the path is resolved
\* again from the root; found resolves, the deadline rejects, otherwise the
\* next probe is scheduled.
checkObject(r) ==
  /\ calls[r]["waitForNestedObject"] = "pending"
  /\ LET root == frame[r].setupSessionReturn.client
         found == root # "" /\ pupPage[root]
     IN IF found
        THEN /\ Called(r, "waitForNestedObject", "returned")
             /\ UNCHANGED frame
        ELSE IF frame[r].polls >= MaxPolls
        THEN /\ Called(r, "waitForNestedObject", "threw")
             /\ frame' = [frame EXCEPT ![r].error = TimeoutMessage("pupPage")]
        ELSE /\ frame' = [frame EXCEPT ![r].polls = @ + 1]
             /\ UNCHANGED calls
  /\ UNCHANGED <<pc, res, stream, sessions, pupPage>>

\* validateSession(sessionId) settles: it resolves with the session's status
\* payload or rejects.
validateSession_settles(r) ==
  /\ calls[r]["validateSession"] = "pending"
  /\ \E out \in {ConnectedPayload, NotConnectedPayload, Undefined} :
       IF out = Undefined
       THEN /\ Called(r, "validateSession", "threw")
            /\ frame' = [frame EXCEPT ![r].error = ErrorOf("validateSession")]
       ELSE /\ Called(r, "validateSession", "returned")
            /\ frame' = [frame EXCEPT ![r].validation =
                           IF sessions[frame[r].sessionId].present
                           THEN out ELSE NotFoundPayload]
  /\ UNCHANGED <<pc, res, stream, sessions, pupPage>>

\* reloadSession(sessionId) settles: the session restarts with a new client.
reloadSession_settles(r) ==
  /\ calls[r]["reloadSession"] = "pending"
  /\ \E ok \in BOOLEAN :
       IF ok
       THEN /\ Called(r, "reloadSession", "returned")
            /\ sessions' = [sessions EXCEPT ![frame[r].args.sessionId] =
                              [present |-> TRUE, qr |-> ""]]
            /\ pupPage' = [pupPage EXCEPT ![frame[r].args.sessionId] = FALSE]
            /\ UNCHANGED frame
       ELSE /\ Called(r, "reloadSession", "threw")
            /\ frame' = [frame EXCEPT ![r].error = ErrorOf("reloadSession")]
            /\ UNCHANGED <<sessions, pupPage>>
  /\ UNCHANGED <<pc, res, stream>>

\* deleteSession(sessionId, validation) settles: the session is destroyed.
deleteSession_settles(r) ==
  /\ calls[r]["deleteSession"] = "pending"
  /\ \E ok \in BOOLEAN :
       IF ok
       THEN /\ Called(r, "deleteSession", "returned")
            /\ sessions' = [sessions EXCEPT ![frame[r].args.sessionId] = NoSession]
            /\ pupPage' = [pupPage EXCEPT ![frame[r].args.sessionId] = FALSE]
            /\ UNCHANGED frame
       ELSE /\ Called(r, "deleteSession", "threw")
            /\ frame' = [frame EXCEPT ![r].error = ErrorOf("deleteSession")]
            /\ UNCHANGED <<sessions, pupPage>>
  /\ UNCHANGED <<pc, res, stream>>

\* flushSessions(onlyInactive) settles: the inactive sessions, or all, go.
flushSessions_settles(r) ==
  /\ calls[r]["flushSessions"] = "pending"
  /\ \E ok \in BOOLEAN :
       IF ok
       THEN /\ Called(r, "flushSessions", "returned")
            /\ sessions' = [s \in SessionIds |->
                              IF frame[r].args.onlyInactive /\ pupPage[s]
                              THEN sessions[s] ELSE NoSession]
            /\ pupPage' = [s \in SessionIds |->
                             frame[r].args.onlyInactive /\ pupPage[s]]
            /\ UNCHANGED frame
       ELSE /\ Called(r, "flushSessions", "threw")
            /\ frame' = [frame EXCEPT ![r].error = ErrorOf("flushSessions")]
            /\ UNCHANGED <<sessions, pupPage>>
  /\ UNCHANGED <<pc, res, stream>>

\* sessions.get(sessionId): the session, or Undefined for an unknown id.
sessionsGet(s) == IF sessions[s].present THEN sessions[s] ELSE Undefined

(* ------------------------------------------------------------------ *)
(* startSession, sessionController.js                                  *)
(* ------------------------------------------------------------------ *)

\* catch (error) { console.log(...); if (!res.headersSent) sendErrorResponse(res, 500, ...) }
startSession_catch(rs, fr, message) ==
  LET fr1 == Log(Caught(fr, message), "startSession ERROR (outer catch)")
  IN IF ~rs.headersSent
     THEN SendError(rs, fr1, 500, message)
     ELSE Ok(rs, Skip(fr1, "startSession:catch"))

\* try { ... } catch (e) { startSession_catch }
Try_startSession_catch(c) ==
  IF c.thrown = "" THEN c ELSE startSession_catch(c.rs, c.fr, c.thrown)


\* Mutant: the setup failure is answered with status 500 instead of 422.
startSession_rejected_500(rs, fr) ==
  SendError(rs, fr, 500, fr.setupSessionReturn.message)

\* if (!setupSessionReturn.success) { sendErrorResponse(res, 422, ...); return }
startSession_rejected(rs, fr) ==
  SendError(rs, fr, 422, fr.setupSessionReturn.message)

\* after the await: if (!res.headersSent) res.json({success: true, ...}) else warn
startSession_ready(rs, fr) ==
  IF ~rs.headersSent
  THEN SendJson(rs, fr, [success |-> TRUE,
                         message |-> fr.setupSessionReturn.message])
  ELSE Ok(rs, Skip(Log(fr, "Client ready, but headers already sent"),
                   "startSession:ready"))


\* Mutant: the wait error is swallowed and the success body is sent.
startSession_waitError_swallowed(rs, fr, message) ==
  IF ~rs.headersSent
  THEN SendJson(rs, fr, [success |-> TRUE,
                         message |-> fr.setupSessionReturn.message])
  ELSE Ok(rs, fr)

\* catch (waitError)
startSession_waitError(rs, fr, message) ==
  LET fr1 == Log(Caught(fr, message), "Error waiting for pupPage")
  IN IF ~rs.headersSent
     THEN SendError(rs, fr1, 500, message)
     ELSE Ok(rs, Skip(Log(fr1, "Timed out waiting for pupPage, but headers already sent"),
                      "startSession:waitError"))

\* try { ... } catch (e) { startSession_waitError }
Try_startSession_waitError(c) ==
  IF c.thrown = "" THEN c ELSE startSession_waitError(c.rs, c.fr, c.thrown)

\* From entry to the await: setupSession, the 422 return, the call of
\* waitForNestedObject(setupSessionReturn.client, 'pupPage').
startSession(r) ==
  /\ pc[r] = "idle"
  /\ \E s \in SessionIds, out \in SetupOutcomes :
       LET fr0 == Enter("startSession", s) IN
       /\ sessions' = setupSessionRegistry(s, out)
       /\ pupPage' = setupSessionClient(s, out)
       /\ IF out = "throws"
          THEN /\ Called(r, "setupSession", "threw")
               /\ Settle(r, startSession_catch(res[r], fr0, ErrorOf("setupSession")))
          ELSE LET fr1 == [fr0 EXCEPT !.setupSessionReturn = setupSession(s, out)]
               IN IF ~fr1.setupSessionReturn.success
                  THEN /\ Called(r, "setupSession", "returned")
                       /\ Settle(r, Try_startSession_catch(startSession_rejected(res[r], fr1)))
                  ELSE /\ calls' = [calls EXCEPT
                                      ![r]["setupSession"] = "returned",
                                      ![r]["waitForNestedObject"] = "pending"]
                       /\ Suspend(r, "awaitReady", fr1)
  /\ UNCHANGED stream


\* Mutant: the success write is not held back by the await.
startSession_resume_early(r) ==
  /\ pc[r] = "awaitReady"
  /\ frame[r].handler = "startSession"
  /\ LET awaited == IF calls[r]["waitForNestedObject"] # "threw"
                    THEN SendJson(res[r], frame[r],
                                  [success |-> TRUE,
                                   message |-> frame[r].setupSessionReturn.message])
                    ELSE Throw(res[r], frame[r], frame[r].error)
     IN Settle(r, Try_startSession_catch(Try_startSession_waitError(awaited)))
  /\ UNCHANGED <<calls, stream, sessions, pupPage>>

\* Resumption after the await: the inner try and its catch, inside the
\* outer try.
startSession_resume(r) ==
  /\ pc[r] = "awaitReady"
  /\ frame[r].handler = "startSession"
  /\ Settled(r, "waitForNestedObject")
  /\ LET awaited == IF calls[r]["waitForNestedObject"] = "returned"
                    THEN startSession_ready(res[r], frame[r])
                    ELSE Throw(res[r], frame[r], frame[r].error)
     IN Settle(r, Try_startSession_catch(Try_startSession_waitError(awaited)))
  /\ UNCHANGED <<calls, stream, sessions, pupPage>>

(* ------------------------------------------------------------------ *)
(* startSession, logging variant (part_000)                            *)
(* ------------------------------------------------------------------ *)

startSessionLogging_catch(rs, fr, message) ==
  LET fr1 == Log(Caught(fr, message), "startSession: OUTER CATCH")
  IN IF ~fr.thisHandlerResponded /\ ~rs.headersSent
     THEN SendError(rs, [fr1 EXCEPT !.thisHandlerResponded = TRUE], 500, message)
     ELSE Ok(rs, Skip(Log(fr1, "OUTER CATCH, but response already attempted/sent"),
                      "startSessionLogging:catch"))

\* try { ... } catch (e) { startSessionLogging_catch }
Try_startSessionLogging_catch(c) ==
  IF c.thrown = "" THEN c ELSE startSessionLogging_catch(c.rs, c.fr, c.thrown)

\* finally { console.log(...) }
startSessionLogging_finally(c) ==
  [c EXCEPT !.fr = Log(@, "startSession: FINALLY")]


\* Mutant: the logging variant answers a rejected setup with status 400.
startSessionLogging_rejected_400(rs, fr) ==
  IF ~rs.headersSent
  THEN SendError(rs, [fr EXCEPT !.thisHandlerResponded = TRUE], 400,
                 fr.setupSessionReturn.message)
  ELSE Ok(rs, Skip(Log(fr, "setupSession failed, but headers ALREADY SENT"),
                   "startSessionLogging:rejected"))

\* if (!setupSessionReturn.success) { if (!res.headersSent) 422 else log; return }
startSessionLogging_rejected(rs, fr) ==
  IF ~rs.headersSent
  THEN SendError(rs, [fr EXCEPT !.thisHandlerResponded = TRUE], 422,
                 fr.setupSessionReturn.message)
  ELSE Ok(rs, Skip(Log(fr, "setupSession failed, but headers ALREADY SENT"),
                   "startSessionLogging:rejected"))

startSessionLogging_ready(rs, fr) ==
  IF ~rs.headersSent
  THEN SendJson(rs, [fr EXCEPT !.thisHandlerResponded = TRUE],
                [success |-> TRUE, message |-> fr.setupSessionReturn.message])
  ELSE Ok(rs, Skip(Log(fr, "waitForNestedObject resolved, but headers ALREADY SENT"),
                   "startSessionLogging:ready"))


\* Mutant: the inner catch answers with the client-error status 422.
startSessionLogging_waitError_422(rs, fr, message) ==
  LET fr1 == Log(Caught(fr, message), "CATCH for waitForNestedObject")
  IN IF ~rs.headersSent
     THEN SendError(rs, [fr1 EXCEPT !.thisHandlerResponded = TRUE], 422, message)
     ELSE Ok(rs, Skip(Log(fr1, "CATCH for waitForNestedObject, but headers ALREADY SENT"),
                      "startSessionLogging:waitError"))

\* catch (waitError)
startSessionLogging_waitError(rs, fr, message) ==
  LET fr1 == Log(Caught(fr, message), "CATCH for waitForNestedObject")
  IN IF ~rs.headersSent
     THEN SendError(rs, [fr1 EXCEPT !.thisHandlerResponded = TRUE], 500, message)
     ELSE Ok(rs, Skip(Log(fr1, "CATCH for waitForNestedObject, but headers ALREADY SENT"),
                      "startSessionLogging:waitError"))

\* try { ... } catch (e) { startSessionLogging_waitError }
Try_startSessionLogging_waitError(c) ==
  IF c.thrown = "" THEN c ELSE startSessionLogging_waitError(c.rs, c.fr, c.thrown)

\* if (thisHandlerResponded || res.headersSent) { console.warn(...); return }
startSessionLogging_afterSetup(rs, fr) ==
  Ok(rs, Skip(Log(fr, "Response already sent after setupSession call"),
              "startSessionLogging:afterSetup"))

startSessionLogging(r) ==
  /\ pc[r] = "idle"
  /\ \E s \in SessionIds, out \in SetupOutcomes :
       LET fr0 == Log(Enter("startSessionLogging", s), "startSession: ENTER") IN
       /\ sessions' = setupSessionRegistry(s, out)
       /\ pupPage' = setupSessionClient(s, out)
       /\ IF out = "throws"
          THEN /\ Called(r, "setupSession", "threw")
               /\ Settle(r, startSessionLogging_finally(
                              startSessionLogging_catch(res[r], fr0,
                                                        ErrorOf("setupSession"))))
          ELSE LET fr1 == [fr0 EXCEPT !.setupSessionReturn = setupSession(s, out)]
                   ret == fr1.setupSessionReturn
               IN IF fr1.thisHandlerResponded \/ res[r].headersSent
                  THEN /\ Called(r, "setupSession", "returned")
                       /\ Settle(r, startSessionLogging_finally(
                                      startSessionLogging_afterSetup(res[r], fr1)))
                  ELSE IF ~ret.success
                  THEN /\ Called(r, "setupSession", "returned")
                       /\ Settle(r, startSessionLogging_finally(
                                      Try_startSessionLogging_catch(startSessionLogging_rejected(res[r], fr1))))
                  ELSE IF ret.client = ""
                  THEN /\ Called(r, "setupSession", "returned")
                       /\ Settle(r, startSessionLogging_finally(
                                      Try_startSessionLogging_catch(Try_startSessionLogging_waitError(Throw(res[r], fr1, NoClientMessage)))))
                  ELSE /\ calls' = [calls EXCEPT
                                      ![r]["setupSession"] = "returned",
                                      ![r]["waitForNestedObject"] = "pending"]
                       /\ Suspend(r, "awaitReady", fr1)
  /\ UNCHANGED stream

startSessionLogging_resume(r) ==
  /\ pc[r] = "awaitReady"
  /\ frame[r].handler = "startSessionLogging"
  /\ Settled(r, "waitForNestedObject")
  /\ LET awaited == IF calls[r]["waitForNestedObject"] = "returned"
                    THEN startSessionLogging_ready(res[r], frame[r])
                    ELSE Throw(res[r], frame[r], frame[r].error)
     IN Settle(r, startSessionLogging_finally(
                    Try_startSessionLogging_catch(Try_startSessionLogging_waitError(awaited))))
  /\ UNCHANGED <<calls, stream, sessions, pupPage>>

(* ------------------------------------------------------------------ *)
(* statusSession                                                       *)
(* ------------------------------------------------------------------ *)

\* Entry of a handler that starts with await validateSession(sessionId).
AwaitValidate(r, h, tags) ==
  /\ pc[r] = "idle"
  /\ \E s \in SessionIds :
       /\ Called(r, "validateSession", "pending")
       /\ Suspend(r, "awaitValidate", [Enter(h, s) EXCEPT !.log = tags])
  /\ UNCHANGED <<stream, sessions, pupPage>>


\* Mutant: the catch block sends its 500 without looking at res.headersSent.
CatchBlock_unguarded(rs, fr, message, tag, site) ==
  SendError(rs, Log(Caught(fr, message), tag), 500, message)

\* The catch block of the handlers of sessionController.js:
\* console.log(..., error); if (!res.headersSent) sendErrorResponse(res, 500, error.message)
CatchBlock(rs, fr, message, tag, site) ==
  LET fr1 == Log(Caught(fr, message), tag)
  IN IF ~rs.headersSent
     THEN SendError(rs, fr1, 500, message)
     ELSE Ok(rs, Skip(fr1, site))

statusSession_catch(rs, fr, message) ==
  CatchBlock(rs, fr, message, "statusSession ERROR", "statusSession:catch")

\* try { ... } catch (e) { statusSession_catch }
Try_statusSession_catch(c) ==
  IF c.thrown = "" THEN c ELSE statusSession_catch(c.rs, c.fr, c.thrown)

\* if (!res.headersSent) res.json(sessionData)
statusSession_send(rs, fr) ==
  IF ~rs.headersSent
  THEN SendJson(rs, fr, fr.validation)
  ELSE Ok(rs, Skip(fr, "statusSession:send"))

statusSession(r) == AwaitValidate(r, "statusSession", {})

statusSession_resume(r) ==
  /\ pc[r] = "awaitValidate"
  /\ frame[r].handler = "statusSession"
  /\ Settled(r, "validateSession")
  /\ LET awaited == IF calls[r]["validateSession"] = "returned"
                    THEN statusSession_send(res[r], frame[r])
                    ELSE Throw(res[r], frame[r], frame[r].error)
     IN Settle(r, Try_statusSession_catch(awaited))
  /\ UNCHANGED <<calls, stream, sessions, pupPage>>

\* logging variant
statusSessionLogging_catch(rs, fr, message) ==
  CatchBlock(rs, fr, message, "statusSession: CATCH", "statusSessionLogging:catch")

\* try { ... } catch (e) { statusSessionLogging_catch }
Try_statusSessionLogging_catch(c) ==
  IF c.thrown = "" THEN c ELSE statusSessionLogging_catch(c.rs, c.fr, c.thrown)

statusSessionLogging_send(rs, fr) ==
  IF ~rs.headersSent
  THEN SendJson(rs, fr, fr.validation)
  ELSE Ok(rs, Skip(Log(fr, "statusSession: Headers already sent before sending data."),
                   "statusSessionLogging:send"))

statusSessionLogging(r) ==
  AwaitValidate(r, "statusSessionLogging", {"statusSession: ENTER"})

statusSessionLogging_resume(r) ==
  /\ pc[r] = "awaitValidate"
  /\ frame[r].handler = "statusSessionLogging"
  /\ Settled(r, "validateSession")
  /\ LET awaited == IF calls[r]["validateSession"] = "returned"
                    THEN statusSessionLogging_send(res[r], frame[r])
                    ELSE Throw(res[r], frame[r], frame[r].error)
     IN Settle(r, Try_statusSessionLogging_catch(awaited))
  /\ UNCHANGED <<calls, stream, sessions, pupPage>>

(* ------------------------------------------------------------------ *)
(* sessionQrCode                                                       *)
(* ------------------------------------------------------------------ *)

sessionQrCode_catch(rs, fr, message) ==
  CatchBlock(rs, fr, message, "sessionQrCode ERROR", "sessionQrCode:catch")

\* try { ... } catch (e) { sessionQrCode_catch }
Try_sessionQrCode_catch(c) ==
  IF c.thrown = "" THEN c ELSE sessionQrCode_catch(c.rs, c.fr, c.thrown)


\* Mutant: the test of session.qr is inverted.
sessionQrCode_send_inverted(rs, fr) ==
  IF ~rs.headersSent
  THEN IF fr.session = Undefined
       THEN SendJson(rs, fr, [success |-> FALSE, message |-> "session_not_found"])
       ELSE IF fr.session.qr = ""
       THEN SendJson(rs, fr, [success |-> TRUE, qr |-> fr.session.qr])
       ELSE SendJson(rs, fr, [success |-> FALSE,
                              message |-> "qr code not ready or already scanned"])
  ELSE Ok(rs, Skip(fr, "sessionQrCode:send"))

\* Mutant: an unknown id is answered with status 404, as in the logging variant.
sessionQrCode_send_404(rs, fr) ==
  IF ~rs.headersSent
  THEN IF fr.session = Undefined
       THEN SendJson(resStatus(rs, 404), fr,
                     [success |-> FALSE, message |-> "session_not_found"])
       ELSE IF fr.session.qr # ""
       THEN SendJson(rs, fr, [success |-> TRUE, qr |-> fr.session.qr])
       ELSE SendJson(rs, fr, [success |-> FALSE,
                              message |-> "qr code not ready or already scanned"])
  ELSE Ok(rs, Skip(fr, "sessionQrCode:send"))

\* if (!res.headersSent) { not found / qr / not ready }
sessionQrCode_send(rs, fr) ==
  IF ~rs.headersSent
  THEN IF fr.session = Undefined
       THEN SendJson(rs, fr, [success |-> FALSE, message |-> "session_not_found"])
       ELSE IF fr.session.qr # ""
       THEN SendJson(rs, fr, [success |-> TRUE, qr |-> fr.session.qr])
       ELSE SendJson(rs, fr, [success |-> FALSE,
                              message |-> "qr code not ready or already scanned"])
  ELSE Ok(rs, Skip(fr, "sessionQrCode:send"))


\* Mutant: the handler clears the qr of the session it has read.
sessionQrCode_consumes(r) ==
  /\ pc[r] = "idle"
  /\ \E s \in SessionIds, throws \in BOOLEAN :
       LET fr0 == Enter("sessionQrCode", s)
           tried == IF throws
                    THEN Throw(res[r], fr0, ErrorOf("sessions.get"))
                    ELSE sessionQrCode_send(res[r],
                                            [fr0 EXCEPT !.session = sessionsGet(s)])
       IN /\ Called(r, "sessions.get", IF throws THEN "threw" ELSE "returned")
          /\ Settle(r, Try_sessionQrCode_catch(tried))
          /\ sessions' = [sessions EXCEPT ![s].qr = ""]
  /\ UNCHANGED <<stream, pupPage>>

\* sessions.get(sessionId) and the answer, in one synchronous run.
sessionQrCode(r) ==
  /\ pc[r] = "idle"
  /\ \E s \in SessionIds, throws \in BOOLEAN :
       LET fr0 == Enter("sessionQrCode", s)
           tried == IF throws
                    THEN Throw(res[r], fr0, ErrorOf("sessions.get"))
                    ELSE sessionQrCode_send(res[r],
                                            [fr0 EXCEPT !.session = sessionsGet(s)])
       IN /\ Called(r, "sessions.get", IF throws THEN "threw" ELSE "returned")
          /\ Settle(r, Try_sessionQrCode_catch(tried))
  /\ UNCHANGED <<stream, sessions, pupPage>>

\* logging variant
sessionQrCodeLogging_catch(rs, fr, message) ==
  CatchBlock(rs, fr, message, "sessionQrCode: CATCH", "sessionQrCodeLogging:catch")

\* try { ... } catch (e) { sessionQrCodeLogging_catch }
Try_sessionQrCodeLogging_catch(c) ==
  IF c.thrown = "" THEN c ELSE sessionQrCodeLogging_catch(c.rs, c.fr, c.thrown)

sessionQrCodeLogging_send(rs, fr) ==
  IF ~rs.headersSent
  THEN IF fr.session = Undefined
       THEN SendJson(resStatus(rs, 404), fr,
                     [success |-> FALSE, message |-> "session_not_found"])
       ELSE IF fr.session.qr # ""
       THEN SendJson(rs, fr, [success |-> TRUE, qr |-> fr.session.qr])
       ELSE SendJson(resStatus(rs, 200), fr,
                     [success |-> FALSE,
                      message |-> "qr code not ready or already scanned"])
  ELSE Ok(rs, Skip(Log(fr, "sessionQrCode: Headers already sent."),
                   "sessionQrCodeLogging:send"))

sessionQrCodeLogging(r) ==
  /\ pc[r] = "idle"
  /\ \E s \in SessionIds, throws \in BOOLEAN :
       LET fr0 == Log(Enter("sessionQrCodeLogging", s), "sessionQrCode: ENTER")
           tried == IF throws
                    THEN Throw(res[r], fr0, ErrorOf("sessions.get"))
                    ELSE sessionQrCodeLogging_send(res[r],
                                                   [fr0 EXCEPT !.session = sessionsGet(s)])
       IN /\ Called(r, "sessions.get", IF throws THEN "threw" ELSE "returned")
          /\ Settle(r, Try_sessionQrCodeLogging_catch(tried))
  /\ UNCHANGED <<stream, sessions, pupPage>>

(* ------------------------------------------------------------------ *)
(* sessionQrCodeImage                                                  *)
(* ------------------------------------------------------------------ *)

\* What the encoder and the pipe do for a session with a QR payload:
\* qr.image throws; pipe throws after the headers; the stream flows.
ImageOutcomes == {"encodeThrows", "pipeThrows", "flows"}

\* const qrImage = qr.image(session.qr); res.writeHead(200, {'Content-Type':
\* 'image/png'}); qrImage.pipe(res)
ImageStream(rs, fr, out) ==
  IF out = "encodeThrows"
  THEN Throw(rs, fr, ErrorOf("qr.image"))
  ELSE LET head == resWriteHead(rs, 200, "image/png")
       IN IF out = "pipeThrows"
          THEN Throw(head, fr, ErrorOf("pipe"))
          ELSE Ok(head, fr)

\* The collaborator calls made on the way.
ImageCalls(cl, rs, throws, session, out) ==
  IF throws THEN [cl EXCEPT !["sessions.get"] = "threw"]
  ELSE IF rs.headersSent \/ session = Undefined
  THEN [cl EXCEPT !["sessions.get"] = "returned"]
  ELSE IF session.qr = ""
  THEN [cl EXCEPT !["sessions.get"] = "returned"]
  ELSE IF out = "encodeThrows"
  THEN [cl EXCEPT !["sessions.get"] = "returned", !["qr.image"] = "threw"]
  ELSE [cl EXCEPT !["sessions.get"] = "returned", !["qr.image"] = "returned",
                  !["pipe"] = IF out = "pipeThrows" THEN "threw" ELSE "returned"]

\* The byte stream flows once pipe has returned.
Piped(cl) == IF cl["pipe"] = "returned" THEN "flowing" ELSE "none"

\* catch (error): JSON only before the headers; after them log and end the
\* response if it is not ended.
sessionQrCodeImage_catch(rs, fr, message) ==
  LET fr1 == Log(Caught(fr, message), "sessionQrCodeImage ERROR")
  IN IF ~rs.headersSent
     THEN SendError(rs, fr1, 500, message)
     ELSE Ok(IF ~rs.writableEnded THEN resEnd(rs, "handler") ELSE rs,
             Skip(Log(fr1, "Error in sessionQrCodeImage after headers sent"),
                  "sessionQrCodeImage:catch"))

\* try { ... } catch (e) { sessionQrCodeImage_catch }
Try_sessionQrCodeImage_catch(c) ==
  IF c.thrown = "" THEN c ELSE sessionQrCodeImage_catch(c.rs, c.fr, c.thrown)

sessionQrCodeImage_send(rs, fr, out) ==
  IF ~rs.headersSent
  THEN IF fr.session = Undefined
       THEN SendJson(rs, fr, [success |-> FALSE, message |-> "session_not_found"])
       ELSE IF fr.session.qr # ""
       THEN ImageStream(rs, fr, out)
       ELSE SendJson(rs, fr, [success |-> FALSE,
                              message |-> "qr code not ready or already scanned"])
  ELSE Ok(rs, Skip(fr, "sessionQrCodeImage:send"))

sessionQrCodeImage(r) ==
  /\ pc[r] = "idle"
  /\ \E s \in SessionIds, throws \in BOOLEAN, out \in ImageOutcomes :
       LET fr0 == Enter("sessionQrCodeImage", s)
           tried == IF throws
                    THEN Throw(res[r], fr0, ErrorOf("sessions.get"))
                    ELSE sessionQrCodeImage_send(res[r],
                           [fr0 EXCEPT !.session = sessionsGet(s)], out)
           cl == ImageCalls(calls[r], res[r], throws, sessionsGet(s), out)
       IN /\ calls' = [calls EXCEPT ![r] = cl]
          /\ stream' = [stream EXCEPT ![r] = Piped(cl)]
          /\ Settle(r, Try_sessionQrCodeImage_catch(tried))
  /\ UNCHANGED <<sessions, pupPage>>

\* logging variant
sessionQrCodeImageLogging_catch(rs, fr, message) ==
  LET fr1 == Log(Caught(fr, message), "sessionQrCodeImage: CATCH")
  IN IF ~rs.headersSent
     THEN SendError(rs, fr1, 500, message)
     ELSE Ok(IF ~rs.writableEnded THEN resEnd(rs, "handler") ELSE rs,
             Skip(Log(fr1, "sessionQrCodeImage: Error after headers sent"),
                  "sessionQrCodeImageLogging:catch"))

\* try { ... } catch (e) { sessionQrCodeImageLogging_catch }
Try_sessionQrCodeImageLogging_catch(c) ==
  IF c.thrown = "" THEN c ELSE sessionQrCodeImageLogging_catch(c.rs, c.fr, c.thrown)

sessionQrCodeImageLogging_send(rs, fr, out) ==
  IF rs.headersSent
  THEN Ok(IF ~rs.writableEnded THEN resEnd(rs, "handler") ELSE rs,
          Skip(Log(fr, "sessionQrCodeImage: Headers already sent at entry."),
               "sessionQrCodeImageLogging:send"))
  ELSE IF fr.session = Undefined
  THEN SendJson(resStatus(rs, 404), fr,
                [success |-> FALSE, message |-> "session_not_found"])
  ELSE IF fr.session.qr # ""
  THEN ImageStream(rs, fr, out)
  ELSE SendJson(resStatus(rs, 200), fr,
                [success |-> FALSE,
                 message |-> "qr code not ready or already scanned"])

sessionQrCodeImageLogging(r) ==
  /\ pc[r] = "idle"
  /\ \E s \in SessionIds, throws \in BOOLEAN, out \in ImageOutcomes :
       LET fr0 == Log(Enter("sessionQrCodeImageLogging", s),
                      "sessionQrCodeImage: ENTER")
           tried == IF throws
                    THEN Throw(res[r], fr0, ErrorOf("sessions.get"))
                    ELSE sessionQrCodeImageLogging_send(res[r],
                           [fr0 EXCEPT !.session = sessionsGet(s)], out)
           cl == ImageCalls(calls[r], res[r], throws, sessionsGet(s), out)
       IN /\ calls' = [calls EXCEPT ![r] = cl]
          /\ stream' = [stream EXCEPT ![r] = Piped(cl)]
          /\ Settle(r, Try_sessionQrCodeImageLogging_catch(tried))
  /\ UNCHANGED <<sessions, pupPage>>

\* The piped QR stream delivers its last chunk: pipe ends the response.
pipe_end(r) ==
  /\ stream[r] = "flowing"
  /\ stream' = [stream EXCEPT ![r] = "finished"]
  /\ res' = [res EXCEPT ![r] = resEnd(@, "pipe")]
  /\ UNCHANGED <<pc, frame, calls, sessions, pupPage>>

\* The piped QR stream emits 'error' while streaming.  The handler has
\* returned and put no listener on the stream: pipe unpipes and leaves the
\* response open, and no code of the handler runs.
pipe_error(r) ==
  /\ stream[r] = "flowing"
  /\ stream' = [stream EXCEPT ![r] = "errored"]
  /\ UNCHANGED <<pc, frame, calls, res, sessions, pupPage>>

(* ------------------------------------------------------------------ *)
(* restartSession, terminateSession                                    *)
(* ------------------------------------------------------------------ *)

restartSession_catch(rs, fr, message) ==
  CatchBlock(rs, fr, message, "restartSession ERROR", "restartSession:catch")

\* try { ... } catch (e) { restartSession_catch }
Try_restartSession_catch(c) ==
  IF c.thrown = "" THEN c ELSE restartSession_catch(c.rs, c.fr, c.thrown)

\* res.json({ success: true, message: 'Restarted successfully' }), the
\* statement after await reloadSession(sessionId)
restartSession_send(rs, fr) ==
  SendJson(rs, fr, [success |-> TRUE, message |-> "Restarted successfully"])

restartSession(r) == AwaitValidate(r, "restartSession", {})

\* After await validateSession: inside if (!res.headersSent), pass the
\* not-found payload through or call reloadSession.
restartSession_validated(r) ==
  /\ pc[r] = "awaitValidate"
  /\ frame[r].handler = "restartSession"
  /\ Settled(r, "validateSession")
  /\ IF calls[r]["validateSession"] = "threw"
     THEN /\ Settle(r, restartSession_catch(res[r], frame[r], frame[r].error))
          /\ UNCHANGED calls
     ELSE IF res[r].headersSent
     THEN /\ Settle(r, Ok(res[r], Skip(frame[r], "restartSession:validated")))
          /\ UNCHANGED calls
     ELSE IF frame[r].validation.message = "session_not_found"
     THEN /\ Settle(r, Try_restartSession_catch(SendJson(res[r], frame[r], frame[r].validation)))
          /\ UNCHANGED calls
     ELSE /\ Called(r, "reloadSession", "pending")
          /\ Suspend(r, "awaitReload",
                     [frame[r] EXCEPT !.args = [sessionId |-> frame[r].sessionId]])
  /\ UNCHANGED <<stream, sessions, pupPage>>


\* Mutant: reloadSession is not awaited before the success write.
restartSession_reloaded_early(r) ==
  /\ pc[r] = "awaitReload"
  /\ LET awaited == IF calls[r]["reloadSession"] # "threw"
                    THEN restartSession_send(res[r], frame[r])
                    ELSE Throw(res[r], frame[r], frame[r].error)
     IN Settle(r, Try_restartSession_catch(awaited))
  /\ UNCHANGED <<calls, stream, sessions, pupPage>>

\* After await reloadSession.
restartSession_reloaded(r) ==
  /\ pc[r] = "awaitReload"
  /\ Settled(r, "reloadSession")
  /\ LET awaited == IF calls[r]["reloadSession"] = "returned"
                    THEN restartSession_send(res[r], frame[r])
                    ELSE Throw(res[r], frame[r], frame[r].error)
     IN Settle(r, Try_restartSession_catch(awaited))
  /\ UNCHANGED <<calls, stream, sessions, pupPage>>

terminateSession_catch(rs, fr, message) ==
  CatchBlock(rs, fr, message, "terminateSession ERROR", "terminateSession:catch")

\* try { ... } catch (e) { terminateSession_catch }
Try_terminateSession_catch(c) ==
  IF c.thrown = "" THEN c ELSE terminateSession_catch(c.rs, c.fr, c.thrown)

\* res.json({ success: true, message: 'Logged out successfully' }), the
\* statement after await deleteSession(sessionId, validation)
terminateSession_send(rs, fr) ==
  SendJson(rs, fr, [success |-> TRUE, message |-> "Logged out successfully"])

terminateSession(r) == AwaitValidate(r, "terminateSession", {})

terminateSession_validated(r) ==
  /\ pc[r] = "awaitValidate"
  /\ frame[r].handler = "terminateSession"
  /\ Settled(r, "validateSession")
  /\ IF calls[r]["validateSession"] = "threw"
     THEN /\ Settle(r, terminateSession_catch(res[r], frame[r], frame[r].error))
          /\ UNCHANGED calls
     ELSE IF res[r].headersSent
     THEN /\ Settle(r, Ok(res[r], Skip(frame[r], "terminateSession:validated")))
          /\ UNCHANGED calls
     ELSE IF frame[r].validation.message = "session_not_found"
     THEN /\ Settle(r, Try_terminateSession_catch(SendJson(res[r], frame[r], frame[r].validation)))
          /\ UNCHANGED calls
     ELSE /\ Called(r, "deleteSession", "pending")
          /\ Suspend(r, "awaitDelete",
                     [frame[r] EXCEPT !.args = [sessionId |-> frame[r].sessionId,
                                                validation |-> frame[r].validation]])
  /\ UNCHANGED <<stream, sessions, pupPage>>


\* Mutant: deleteSession is not awaited before the success write.
terminateSession_deleted_early(r) ==
  /\ pc[r] = "awaitDelete"
  /\ LET awaited == IF calls[r]["deleteSession"] # "threw"
                    THEN terminateSession_send(res[r], frame[r])
                    ELSE Throw(res[r], frame[r], frame[r].error)
     IN Settle(r, Try_terminateSession_catch(awaited))
  /\ UNCHANGED <<calls, stream, sessions, pupPage>>

\* After await deleteSession.
terminateSession_deleted(r) ==
  /\ pc[r] = "awaitDelete"
  /\ Settled(r, "deleteSession")
  /\ LET awaited == IF calls[r]["deleteSession"] = "returned"
                    THEN terminateSession_send(res[r], frame[r])
                    ELSE Throw(res[r], frame[r], frame[r].error)
     IN Settle(r, Try_terminateSession_catch(awaited))
  /\ UNCHANGED <<calls, stream, sessions, pupPage>>

(* ------------------------------------------------------------------ *)
(* terminateInactiveSessions, terminateAllSessions                     *)
(* ------------------------------------------------------------------ *)

\* Entry of a handler that starts with await flushSessions(onlyInactive).
AwaitFlush(r, h, onlyInactive) ==
  /\ pc[r] = "idle"
  /\ Called(r, "flushSessions", "pending")
  /\ Suspend(r, "awaitFlush",
             [NewFrame EXCEPT !.handler = h,
                              !.args = [onlyInactive |-> onlyInactive]])
  /\ UNCHANGED <<stream, sessions, pupPage>>

\* if (!res.headersSent) res.json({ success: true, message: 'Flush completed successfully' })
FlushSend(rs, fr, site) ==
  IF ~rs.headersSent
  THEN SendJson(rs, fr, [success |-> TRUE,
                         message |-> "Flush completed successfully"])
  ELSE Ok(rs, Skip(fr, site))

terminateInactiveSessions_catch(rs, fr, message) ==
  CatchBlock(rs, fr, message, "terminateInactiveSessions ERROR",
             "terminateInactiveSessions:catch")

\* try { ... } catch (e) { terminateInactiveSessions_catch }
Try_terminateInactiveSessions_catch(c) ==
  IF c.thrown = "" THEN c ELSE terminateInactiveSessions_catch(c.rs, c.fr, c.thrown)

terminateInactiveSessions_send(rs, fr) ==
  FlushSend(rs, fr, "terminateInactiveSessions:send")

terminateInactiveSessions(r) == AwaitFlush(r, "terminateInactiveSessions", TRUE)

terminateInactiveSessions_resume(r) ==
  /\ pc[r] = "awaitFlush"
  /\ frame[r].handler = "terminateInactiveSessions"
  /\ Settled(r, "flushSessions")
  /\ LET awaited == IF calls[r]["flushSessions"] = "returned"
                    THEN terminateInactiveSessions_send(res[r], frame[r])
                    ELSE Throw(res[r], frame[r], frame[r].error)
     IN Settle(r, Try_terminateInactiveSessions_catch(awaited))
  /\ UNCHANGED <<calls, stream, sessions, pupPage>>

terminateAllSessions_catch(rs, fr, message) ==
  CatchBlock(rs, fr, message, "terminateAllSessions ERROR",
             "terminateAllSessions:catch")

\* try { ... } catch (e) { terminateAllSessions_catch }
Try_terminateAllSessions_catch(c) ==
  IF c.thrown = "" THEN c ELSE terminateAllSessions_catch(c.rs, c.fr, c.thrown)

terminateAllSessions_send(rs, fr) ==
  FlushSend(rs, fr, "terminateAllSessions:send")


\* Mutant: terminateAllSessions flushes only the inactive sessions.
terminateAllSessions_onlyInactive(r) ==
  AwaitFlush(r, "terminateAllSessions", TRUE)

terminateAllSessions(r) == AwaitFlush(r, "terminateAllSessions", FALSE)

terminateAllSessions_resume(r) ==
  /\ pc[r] = "awaitFlush"
  /\ frame[r].handler = "terminateAllSessions"
  /\ Settled(r, "flushSessions")
  /\ LET awaited == IF calls[r]["flushSessions"] = "returned"
                    THEN terminateAllSessions_send(res[r], frame[r])
                    ELSE Throw(res[r], frame[r], frame[r].error)
     IN Settle(r, Try_terminateAllSessions_catch(awaited))
  /\ UNCHANGED <<calls, stream, sessions, pupPage>>

(* ------------------------------------------------------------------ *)
(* Specification                                                       *)
(* ------------------------------------------------------------------ *)

Environment ==
  \/ \E s \in SessionIds : QrIssued(s) \/ QrScanned(s) \/ PageCreated(s)
  \/ \E r \in Reqs :
       \/ OutsideWrite(r) \/ OutsideEnd(r) \/ RequestClosed(r)
       \/ checkObject(r)
       \/ validateSession_settles(r) \/ reloadSession_settles(r)
       \/ deleteSession_settles(r) \/ flushSessions_settles(r)
       \/ pipe_end(r) \/ pipe_error(r)

Handlers ==
  \E r \in Reqs :
    \/ startSession(r) \/ startSession_resume(r)
    \/ startSessionLogging(r) \/ startSessionLogging_resume(r)
    \/ statusSession(r) \/ statusSession_resume(r)
    \/ statusSessionLogging(r) \/ statusSessionLogging_resume(r)
    \/ sessionQrCode(r) \/ sessionQrCodeLogging(r)
    \/ sessionQrCodeImage(r) \/ sessionQrCodeImageLogging(r)
    \/ restartSession(r) \/ restartSession_validated(r)
    \/ restartSession_reloaded(r)
    \/ terminateSession(r) \/ terminateSession_validated(r)
    \/ terminateSession_deleted(r)
    \/ terminateInactiveSessions(r) \/ terminateInactiveSessions_resume(r)
    \/ terminateAllSessions(r) \/ terminateAllSessions_resume(r)

Next == Environment \/ Handlers

Spec == Init /\ [][Next]_vars

\* Two requests in flight at once, both for startSession, on the shared
\* registry.
InitTwo == InitFor(Reqs)

EnvironmentTwo ==
  \/ \E s \in SessionIds : PageCreated(s)
  \/ \E r \in Reqs :
       \/ OutsideWrite(r) \/ OutsideEnd(r) \/ RequestClosed(r)
       \/ checkObject(r)

HandlersTwo ==
  \E r \in Reqs :
    \/ startSession(r) \/ startSession_resume(r)
    \/ startSessionLogging(r) \/ startSessionLogging_resume(r)

NextTwo == EnvironmentTwo \/ HandlersTwo

SpecTwo == InitTwo /\ [][NextTwo]_vars

(* ------------------------------------------------------------------ *)
(* Properties                                                          *)
(* ------------------------------------------------------------------ *)

StartHandlers == {"startSession", "startSessionLogging"}

Returned(r) == pc[r] \in {"done", "rejected"}

\* The write calls the handler itself made on its response.
HandlerWrites(r) == SelectSeq(res[r].writes, LAMBDA w : w.by = "handler")

\* Code outside the handler wrote the response.
OutsideStarted(r) == \E i \in DOMAIN res[r].writes : res[r].writes[i].by = "outside"

\* The outside writer started the response and has not ended it.
OutsidePending(r) ==
  /\ OutsideStarted(r) /\ ~res[r].writableEnded

JsonWrite(status, body) ==
  Write("handler", "json", status, "application/json", body, FALSE)

ErrorWrite(status, message) ==
  JsonWrite(status, [success |-> FALSE, message |-> message])

\* C1: once a response has started, no later step of the handler writes
\* status, headers or body to it: no handler call of res.json or
\* res.writeHead ever reaches a response whose headers are sent.
C1_NoWriteAfterStart ==
  \A r \in Reqs : \A i \in DOMAIN res[r].writes :
    LET w == res[r].writes[i]
    IN (w.by = "handler" /\ w.op \in {"json", "writeHead"}) => ~w.late

\* Nothing more will happen for the request: the handler has returned, no
\* byte stream is flowing, no outside writer holds the response open.
Quiescent(r) ==
  /\ Returned(r) /\ stream[r] # "flowing" /\ ~OutsidePending(r)

\* C2: every request ends with a terminated response: when the handler has
\* returned and every collaborator, the byte stream included, has finished
\* or failed, the response is ended.
C2_EveryRequestAnswered ==
  \A r \in Reqs : Quiescent(r) => res[r].writableEnded

\* C3: in startSession a setup result with success:false is answered with
\* the 422 failure payload carrying the setup message (the only write the
\* handler makes), and waitForNestedObject is never called for the request.
C3_SetupFailureShortCircuits ==
  \A r \in Reqs :
    LET ret == frame[r].setupSessionReturn
        hw == HandlerWrites(r)
    IN (frame[r].handler \in StartHandlers /\ ret # Undefined /\ ~ret.success) =>
         /\ calls[r]["waitForNestedObject"] = "none"
         /\ Returned(r)
         /\ \A i \in DOMAIN hw :
              /\ hw[i].status = 422
              /\ hw[i].body = [success |-> FALSE, message |-> ret.message]
         /\ ~OutsideStarted(r) => res[r].writes = <<ErrorWrite(422, ret.message)>>

C3_Witness ==
  \E r \in Reqs :
    /\ frame[r].handler \in StartHandlers
    /\ frame[r].setupSessionReturn # Undefined
    /\ ~frame[r].setupSessionReturn.success
    /\ res[r].writes = <<ErrorWrite(422, SetupRejectedMessage)>>

SuccessBody(r) ==
  [success |-> TRUE, message |-> frame[r].setupSessionReturn.message]

\* C4: in startSession, when setup succeeds and the readiness wait
\* resolves, the response is 200 {success:true, message:<setup message>};
\* no success body is written before the wait has resolved.
C4_SuccessAfterReady ==
  \A r \in Reqs :
    frame[r].handler \in StartHandlers =>
      /\ \A i \in DOMAIN res[r].writes :
           LET w == res[r].writes[i]
           IN (w.by = "handler" /\ w.body # NoBody /\ w.body.success) =>
                calls[r]["waitForNestedObject"] = "returned"
      /\ (Returned(r) /\ calls[r]["waitForNestedObject"] = "returned"
            /\ ~OutsideStarted(r)) =>
           res[r].writes = <<JsonWrite(200, SuccessBody(r))>>

C4_Witness ==
  \E r \in Reqs :
    /\ frame[r].handler \in StartHandlers
    /\ calls[r]["waitForNestedObject"] = "returned"
    /\ res[r].writes = <<JsonWrite(200, [success |-> TRUE, message |-> SetupOkMessage])>>

\* C5: in startSession, when the readiness wait fails with Timeout, the
\* response is 500 carrying the wait error's message, and the 200 success
\* body is never sent for that request.
C5_TimeoutIs500 ==
  \A r \in Reqs :
    (frame[r].handler \in StartHandlers
       /\ calls[r]["waitForNestedObject"] = "threw") =>
      /\ \A i \in DOMAIN res[r].writes :
           LET w == res[r].writes[i]
           IN w.by = "handler" => (w.status = 500 /\ ~w.body.success)
      /\ (Returned(r) /\ ~OutsideStarted(r)) =>
           res[r].writes = <<ErrorWrite(500, TimeoutMessage("pupPage"))>>

C5_Witness ==
  \E r \in Reqs :
    /\ frame[r].handler \in StartHandlers
    /\ calls[r]["waitForNestedObject"] = "threw"
    /\ frame[r].polls = MaxPolls
    /\ res[r].writes = <<ErrorWrite(500, TimeoutMessage("pupPage"))>>

\* A collaborator call of the request threw or rejected.
Threw(r) == \E c \in Collaborators : calls[r][c] = "threw"

\* The message of that exception.
ExceptionMessage(r) ==
  IF calls[r]["waitForNestedObject"] = "threw"
  THEN TimeoutMessage("pupPage")
  ELSE ErrorOf(CHOOSE c \in Collaborators : calls[r][c] = "threw")

IsError500(w) == w.by = "handler" /\ w.op = "json" /\ w.status = 500

ImageCommitted(r) ==
  \E i \in DOMAIN res[r].writes :
    LET w == res[r].writes[i]
    IN w.by = "handler" /\ w.op = "writeHead" /\ w.type = "image/png" /\ ~w.late

\* A failure after the image headers: pipe threw, or the stream errored.
ImageFailed(r) == calls[r]["pipe"] = "threw" \/ stream[r] = "errored"

EndCount(r) == Len(SelectSeq(res[r].writes, LAMBDA w : w.op = "end"))

\* C7: once the image/png headers are committed, a later failure (an error
\* of the byte source while streaming included) never writes a JSON body,
\* and the response is aborted/ended exactly once.
C7_ImageAbortOnce ==
  \A r \in Reqs :
    ImageCommitted(r) =>
      /\ \A i \in DOMAIN res[r].writes : res[r].writes[i].op # "json"
      /\ ImageFailed(r) => EndCount(r) = 1

QrJsonHandlers == {"sessionQrCode", "sessionQrCodeLogging"}

\* The QR JSON handler looked the session up and answered a fresh response.
QrAnswered(r) ==
  /\ frame[r].handler \in QrJsonHandlers
  /\ Returned(r)
  /\ calls[r]["sessions.get"] = "returned"
  /\ ~OutsideStarted(r)

\* C8: the QR JSON endpoint answers by session state: {success:true, qr}
\* for a session with a qr, "qr code not ready or already scanned" for a
\* session without one, "session_not_found" for an unknown id.
C8_QrBodyBySessionState ==
  \A r \in Reqs :
    QrAnswered(r) =>
      LET session == frame[r].session
          ws == res[r].writes
      IN /\ Len(ws) = 1 /\ ws[1].op = "json" /\ ~ws[1].late
         /\ session = Undefined =>
              ws[1].body = [success |-> FALSE, message |-> "session_not_found"]
         /\ (session # Undefined /\ session.qr \in QrPayloads) =>
              ws[1].body = [success |-> TRUE, qr |-> session.qr]
         /\ (session # Undefined /\ session.qr = "") =>
              ws[1].body = [success |-> FALSE,
                            message |-> "qr code not ready or already scanned"]

C8_Witness ==
  \E r \in Reqs :
    /\ QrAnswered(r)
    /\ frame[r].session # Undefined
    /\ frame[r].session.qr = "XYZ"
    /\ res[r].writes[1].body = [success |-> TRUE, qr |-> "XYZ"]

\* C9 as claimed: the QR JSON endpoint answers 200 in the three
\* non-error cases (qr present, session not found, qr not ready).
C9_AlwaysOk ==
  \A r \in Reqs :
    QrAnswered(r) => \A i \in DOMAIN res[r].writes : res[r].writes[i].status = 200

\* C9 amended: sessionQrCode of sessionController.js answers 200 in the
\* three non-error cases; the logging variant answers 404 for an unknown
\* id and 200 for the other two; status 500 comes only from an error.
C9_StatusByVariant ==
  \A r \in Reqs :
    (frame[r].handler \in QrJsonHandlers /\ Returned(r) /\ ~OutsideStarted(r)) =>
      /\ Len(res[r].writes) = 1
      /\ res[r].writes[1].status =
           IF calls[r]["sessions.get"] = "threw" THEN 500
           ELSE IF frame[r].handler = "sessionQrCodeLogging"
                   /\ frame[r].session = Undefined
           THEN 404 ELSE 200

C9_Witness ==
  \E r \in Reqs :
    /\ QrAnswered(r)
    /\ frame[r].handler = "sessionQrCodeLogging"
    /\ frame[r].session = Undefined
    /\ res[r].writes[1].status = 404

RestartedBody == [success |-> TRUE, message |-> "Restarted successfully"]

\* C10: restartSession passes a session_not_found validation through
\* without calling reloadSession; otherwise it answers 200 "Restarted
\* successfully", written only after reloadSession has completed; if
\* reloadSession throws the answer is 500 and the success body is never sent.
C10_RestartAfterReload ==
  \A r \in Reqs :
    frame[r].handler = "restartSession" =>
      LET v == frame[r].validation
          fresh == Returned(r) /\ ~OutsideStarted(r)
      IN /\ (v # Undefined /\ v.message = "session_not_found") =>
              /\ calls[r]["reloadSession"] = "none"
              /\ fresh => res[r].writes = <<JsonWrite(200, v)>>
         /\ (fresh /\ v # Undefined /\ v.message # "session_not_found") =>
              calls[r]["reloadSession"] \in {"returned", "threw"}
         /\ \A i \in DOMAIN res[r].writes :
              (res[r].writes[i].by = "handler"
                 /\ res[r].writes[i].body = RestartedBody) =>
                calls[r]["reloadSession"] = "returned"
         /\ (fresh /\ calls[r]["reloadSession"] = "returned") =>
              res[r].writes = <<JsonWrite(200, RestartedBody)>>
         /\ (fresh /\ calls[r]["reloadSession"] = "threw") =>
              res[r].writes = <<ErrorWrite(500, ErrorOf("reloadSession"))>>

C10_Witness ==
  \E r \in Reqs :
    /\ frame[r].handler = "restartSession"
    /\ calls[r]["reloadSession"] = "returned"
    /\ res[r].writes = <<JsonWrite(200, RestartedBody)>>

LoggedOutBody == [success |-> TRUE, message |-> "Logged out successfully"]

\* C11: terminateSession passes a session_not_found validation through
\* without calling deleteSession; otherwise it calls deleteSession with the
\* session id and the validation result and answers 200 "Logged out
\* successfully", written only after deleteSession has completed; if
\* deleteSession throws the answer is 500 and the success body is never sent.
C11_TerminateAfterDelete ==
  \A r \in Reqs :
    frame[r].handler = "terminateSession" =>
      LET v == frame[r].validation
          fresh == Returned(r) /\ ~OutsideStarted(r)
      IN /\ (v # Undefined /\ v.message = "session_not_found") =>
              /\ calls[r]["deleteSession"] = "none"
              /\ fresh => res[r].writes = <<JsonWrite(200, v)>>
         /\ (fresh /\ v # Undefined /\ v.message # "session_not_found") =>
              calls[r]["deleteSession"] \in {"returned", "threw"}
         /\ calls[r]["deleteSession"] # "none" =>
              frame[r].args = [sessionId |-> frame[r].sessionId, validation |-> v]
         /\ \A i \in DOMAIN res[r].writes :
              (res[r].writes[i].by = "handler"
                 /\ res[r].writes[i].body = LoggedOutBody) =>
                calls[r]["deleteSession"] = "returned"
         /\ (fresh /\ calls[r]["deleteSession"] = "returned") =>
              res[r].writes = <<JsonWrite(200, LoggedOutBody)>>
         /\ (fresh /\ calls[r]["deleteSession"] = "threw") =>
              res[r].writes = <<ErrorWrite(500, ErrorOf("deleteSession"))>>

C11_Witness ==
  \E r \in Reqs :
    /\ frame[r].handler = "terminateSession"
    /\ calls[r]["deleteSession"] = "returned"
    /\ frame[r].args.validation = ConnectedPayload
    /\ res[r].writes = <<JsonWrite(200, LoggedOutBody)>>

FlushHandlers == {"terminateInactiveSessions", "terminateAllSessions"}

FlushedBody == [success |-> TRUE, message |-> "Flush completed successfully"]

\* The flush request of r in a state: the argument of flushSessions, the
\* call before any write of the handler, the payload whatever the registry
\* holds.
FlushAnswered(r) ==
  frame[r].handler \in FlushHandlers =>
    LET fresh == Returned(r) /\ ~OutsideStarted(r)
    IN /\ calls[r]["flushSessions"] # "none"
       /\ frame[r].args.onlyInactive =
            (frame[r].handler = "terminateInactiveSessions")
       /\ HandlerWrites(r) # << >> => Settled(r, "flushSessions")
       /\ (fresh /\ calls[r]["flushSessions"] = "returned") =>
            res[r].writes = <<JsonWrite(200, FlushedBody)>>
       /\ (fresh /\ calls[r]["flushSessions"] = "threw") =>
            res[r].writes = <<ErrorWrite(500, ErrorOf("flushSessions"))>>

\* flushSessions is called at most once by the request: a call is made only
\* by a request that has made none, and a call made is never made again.
FlushCalledOnce(r) ==
  /\ (calls[r]["flushSessions"] # "pending"
        /\ calls'[r]["flushSessions"] = "pending") =>
       (calls[r]["flushSessions"] = "none" /\ pc[r] = "idle")
  /\ calls[r]["flushSessions"] # "none" => calls'[r]["flushSessions"] # "none"

\* C12: the flush endpoints answer {success:true, message:"Flush completed
\* successfully"} whatever sessions the registry held (none included);
\* terminateInactiveSessions calls flushSessions(true) and
\* terminateAllSessions flushSessions(false), once per request and before
\* the response is written.
C12_FlushOncePayload ==
  /\ [](\A r \in Reqs : FlushAnswered(r))
  /\ [][\A r \in Reqs : FlushCalledOnce(r)]_vars

C12_Witness ==
  \E r \in Reqs : \E s \in SessionIds :
    /\ frame[r].handler = "terminateInactiveSessions"
    /\ frame[r].args.onlyInactive
    /\ calls[r]["flushSessions"] = "returned"
    /\ sessions[s].present /\ pupPage[s]
    /\ res[r].writes = <<JsonWrite(200, FlushedBody)>>

\* The response was started by code outside the handler, before any write
\* of the handler.
StartedOutside(r) ==
  /\ res[r].writes # << >>
  /\ res[r].writes[1].by = "outside"

\* C13: on a response started by a layer outside the handler, every
\* finalize attempt of the handler is a no-op: nothing the handler does
\* takes effect on the transport (no status, headers, body or end).
C13_OutsideStartedNoOp ==
  \A r \in Reqs :
    StartedOutside(r) =>
      \A i \in DOMAIN res[r].writes :
        res[r].writes[i].by = "handler" => res[r].writes[i].late

\* The writes a step adds to the response of r.
NewWrites(r) ==
  {i \in DOMAIN res'[r].writes : i > Len(res[r].writes)}

\* C14: once the request is cancelled (the client disconnected while the
\* handler was suspended), the handler makes no finalize attempt: no step
\* after the cancellation adds a write of the handler to the response.
C14_NoFinalizeAfterCancel ==
  [][\A r \in Reqs :
       res[r].closed =>
         \A i \in NewWrites(r) : res'[r].writes[i].by # "handler"]_vars

\* C15: a finalize attempt suppressed because the response had already
\* started is recorded as a diagnostic and never raises: a handler that
\* skipped a terminal write has written a log entry, and its promise is
\* not rejected.
C15_SuppressedIsLogged ==
  \A r \in Reqs :
    frame[r].skipped # {} => (frame[r].log # {} /\ pc[r] # "rejected")

\* The root object of the request's readiness wait.
WaitRoot(r) == frame[r].setupSessionReturn.client

\* The wait of r in a state: it rejects only with Timeout, and only after
\* MaxPolls probes have failed; it never probes beyond the deadline.
WaitOutcome(r) ==
  /\ frame[r].polls <= MaxPolls
  /\ calls[r]["waitForNestedObject"] = "threw" =>
       /\ frame[r].polls = MaxPolls
       /\ frame[r].error = TimeoutMessage("pupPage")

\* After its outcome the wait neither changes it nor probes again.
WaitTerminated(r) ==
  Settled(r, "waitForNestedObject") =>
    /\ calls'[r]["waitForNestedObject"] = calls[r]["waitForNestedObject"]
    /\ frame'[r].polls = frame[r].polls

\* C16: a readiness wait produces at most one terminal outcome, found or
\* timed out, never both; a path that does not resolve makes it fail with
\* Timeout; after either outcome the target is not probed again.
C16_OneOutcomeNoLeak ==
  /\ [](\A r \in Reqs : WaitOutcome(r))
  /\ [][\A r \in Reqs : WaitTerminated(r)]_vars

C16_Witness ==
  \E r \in Reqs :
    /\ calls[r]["waitForNestedObject"] = "threw"
    /\ frame[r].polls = MaxPolls
    /\ WaitRoot(r) \in SessionIds
    /\ pupPage[WaitRoot(r)]

\* The path 'pupPage' resolves from the root of r's wait in this state.
Resolvable(r) == WaitRoot(r) \in SessionIds /\ pupPage[WaitRoot(r)]

\* A probe of r's wait: it resolves exactly when the path resolves from
\* the root in the state the probe is made in, whatever earlier probes saw.
ProbeSeesCurrent(r) ==
  calls[r]["waitForNestedObject"] = "pending" =>
    /\ calls'[r]["waitForNestedObject"] = "returned" => Resolvable(r)
    /\ (calls'[r]["waitForNestedObject"] = "threw"
          \/ frame'[r].polls # frame[r].polls) => ~Resolvable(r)

C18_RecheckAfterAwait ==
  [][\A r \in Reqs :
       (pc[r] \in AwaitStates /\ res[r].headersSent) =>
         \A i \in NewWrites(r) :
           ~(res'[r].writes[i].by = "handler"
               /\ res'[r].writes[i].op \in {"json", "writeHead"})]_vars

\* The result of the request's setup: what setupSession returned, or what
\* the promise it returned settles with.
SetupResult(r) ==
  LET ret == frame[r].setupSessionReturn
  IN IF "settles" \in DOMAIN ret THEN ret.settles ELSE ret

\* C19: whether setupSession completes synchronously or asynchronously, a
\* setup that reports success and yields a client moves startSession to
\* the readiness wait on 'pupPage' and then to 200 or 500; it never
\* produces the 422 response.
C19_SuccessfulSetupWaits ==
  \A r \in Reqs :
    (frame[r].handler \in StartHandlers
       /\ frame[r].setupSessionReturn # Undefined
       /\ SetupResult(r).success /\ SetupResult(r).client # ""
       /\ ~StartedOutside(r)) =>
      /\ calls[r]["waitForNestedObject"] # "none"
      /\ \A i \in DOMAIN res[r].writes :
           res[r].writes[i].by = "handler" =>
             res[r].writes[i].status \in {200, 500}

\* The write sequences that took effect on the response of r: a status
\* line with headers, sent by res.json or res.writeHead, by anyone.
WriteSequences(r) ==
  {i \in DOMAIN res[r].writes :
     res[r].writes[i].op \in {"json", "writeHead"} /\ ~res[r].writes[i].late}

\* A step of request r (its handler, its readiness wait) leaves the
\* response of every other request as it is.
OwnResponseOnly(r) ==
  (pc'[r] # pc[r] \/ frame'[r] # frame[r] \/ calls'[r] # calls[r]) =>
    \A q \in Reqs \ {r} : res'[q] = res[q]

\* C20: concurrent requests are independent in their response state: a
\* finalize, or a suppressed one, of one request never changes another
\* request's response, and in every interleaving of two startSession
\* instances sharing the registry each response carries at most one write
\* sequence.
C20_ResponsesIndependent ==
  /\ [](\A r \in Reqs : Cardinality(WriteSequences(r)) <= 1)
  /\ [][\A r \in Reqs : OwnResponseOnly(r)]_vars

C20_Witness ==
  /\ frame[1].handler \in StartHandlers /\ frame[2].handler \in StartHandlers
  /\ frame[1].sessionId = frame[2].sessionId
  /\ pc[1] = "awaitReady" /\ ~res[1].headersSent
  /\ pc[2] = "done"
  /\ res[2].writes = <<ErrorWrite(422, SetupRejectedMessage)>>

\* The collaborators that create, restart and destroy sessions.
Lifecycle == {"setupSession", "reloadSession", "deleteSession", "flushSessions"}

RegistryUnchanged == sessions' = sessions /\ pupPage' = pupPage

\* A run of handler code of r (the only steps that move pc[r]) leaves the
\* registry, every qr and every client as they are, unless it is the run
\* of startSession in which setupSession is called and returns.
HandlerKeepsRegistry(r) ==
  pc'[r] # pc[r] =>
    \/ RegistryUnchanged
    \/ /\ frame'[r].handler \in StartHandlers
       /\ calls[r]["setupSession"] = "none"
       /\ calls'[r]["setupSession"] = "returned"

\* A change of the registry is the session's own progress (qr issued or
\* scanned, page created), or comes with a lifecycle collaborator returning.
ChangeByLifecycle ==
  RegistryUnchanged \/ calls' = calls
    \/ \E r \in Reqs : \E c \in Lifecycle :
         calls[r][c] # "returned" /\ calls'[r][c] = "returned"

\* C21: the handlers never mutate a session or the registry directly:
\* statusSession, sessionQrCode and sessionQrCodeImage leave the registry,
\* each qr and each client unchanged, and the other handlers change them
\* only through setupSession, reloadSession, deleteSession, flushSessions.
C21_RegistryOnlyByLifecycle ==
  [][ChangeByLifecycle /\ \A r \in Reqs : HandlerKeepsRegistry(r)]_vars

C21_Witness ==
  \E r \in Reqs :
    /\ frame[r].handler \in {"sessionQrCode", "sessionQrCodeImage"}
    /\ Returned(r)
    /\ frame[r].session # Undefined
    /\ frame[r].session.qr \in QrPayloads
    /\ sessions[frame[r].sessionId] = frame[r].session
    /\ res[r].headersSent

\* The logging variant's setup reported success without a client object.
NoClientSetup(r) ==
  /\ frame[r].handler = "startSessionLogging"
  /\ frame[r].setupSessionReturn # Undefined
  /\ frame[r].setupSessionReturn.success
  /\ frame[r].setupSessionReturn.client = ""

\* C22: in the logging variant of startSession a setup result with
\* success:true and no client object is answered with status 500 carrying
\* "setupSession did not return a client object.", and the readiness wait
\* is never invoked for the request.
C22_NoClientIs500 ==
  \A r \in Reqs :
    NoClientSetup(r) =>
      /\ calls[r]["waitForNestedObject"] = "none"
      /\ Returned(r)
      /\ \A i \in DOMAIN res[r].writes :
           res[r].writes[i].by = "handler" =>
             res[r].writes[i] = ErrorWrite(500, NoClientMessage)
      /\ ~OutsideStarted(r) =>
           res[r].writes = <<ErrorWrite(500, NoClientMessage)>>

C22_Witness ==
  \E r \in Reqs :
    /\ NoClientSetup(r)
    /\ frame[r].error = NoClientMessage
    /\ res[r].writes = <<ErrorWrite(500, NoClientMessage)>>

\* The writes of the handler that reached the transport of r's response.
EffectiveWrites(r) ==
  SelectSeq(res[r].writes, LAMBDA w : w.by = "handler" /\ ~w.late)

\* Requests r and q had the same setup result: setupSession threw, or it
\* returned the same success flag and message, with a client when it
\* reported success.
SameSetup(r, q) ==
  /\ calls[r]["setupSession"] = calls[q]["setupSession"]
  /\ calls[r]["setupSession"] \in {"threw", "returned"}
  /\ calls[r]["setupSession"] = "returned" =>
       LET a == frame[r].setupSessionReturn
           b == frame[q].setupSessionReturn
       IN /\ a.success = b.success /\ a.message = b.message
          /\ a.success => (a.client # "" /\ b.client # "")

\* r and q met the same inputs: the same setup result, the response
\* started from outside the handler in both or in neither, and, where it
\* was not, the same readiness outcome.
SameInputs(r, q) ==
  /\ SameSetup(r, q)
  /\ OutsideStarted(r) = OutsideStarted(q)
  /\ ~OutsideStarted(r) =>
       calls[r]["waitForNestedObject"] = calls[q]["waitForNestedObject"]

\* C23: the two startSession implementations are observationally
\* equivalent: for the same setup result, readiness outcome and start of
\* the response from outside, both emit the same sequence of transport
\* writes (the same status and body, or none).
C23_StartSessionsEquivalent ==
  \A r, q \in Reqs :
    (frame[r].handler = "startSession" /\ frame[q].handler = "startSessionLogging"
       /\ Returned(r) /\ Returned(q) /\ SameInputs(r, q)) =>
      EffectiveWrites(r) = EffectiveWrites(q)

C23_Witness ==
  \E r, q \in Reqs :
    /\ frame[r].handler = "startSession" /\ frame[q].handler = "startSessionLogging"
    /\ Returned(r) /\ Returned(q) /\ SameInputs(r, q)
    /\ calls[r]["setupSession"] = "returned"
    /\ ~frame[r].setupSessionReturn.success
    /\ OutsideStarted(r)
    /\ HandlerWrites(r) # << >>
    /\ "startSessionLogging:afterSetup" \in frame[q].skipped
    /\ EffectiveWrites(r) = << >> /\ EffectiveWrites(q) = << >>

====
